---- MODULE Spec2Model ----
(***************************************************************************)
(* A model of the optifier proc-macro crate (src/src/lib.rs).              *)
(*                                                                         *)
(* The crate exports two macros: the attribute macro partial_derive (a     *)
(* no-op) and the derive macro Partial (derive_partial), which emits a     *)
(* *Partial struct, a merge function and a TryFrom implementation with     *)
(* its error enum.  The model has two layers:                              *)
(*   - expansion: the compiler expands the active attributes of an item    *)
(*     top to bottom, calling partial_derive or derive_partial;            *)
(*   - run time: the emitted merge and try_from are interpreted on         *)
(*     instances of the emitted struct, as in examples/playground.rs.      *)
(* Token streams are modelled structurally (records and sequences).        *)
(* Identifiers the code transforms are sequences of one-character strings. *)
(***************************************************************************)
EXTENDS Integers, Sequences, FiniteSets, TLC

VARIABLES
    source,   \* the item as written (never changes)
    pending,  \* attributes still attached to the item, not yet expanded
    out,      \* what derive_partial produced: nothing yet, tokens, or a panic
    pc,       \* "expanding" | "expanded" | "panicked" | "done"
    srcs,     \* the *Partial instances the program constructs, in order
    parts,    \* the instances still alive (merge consumes its operands)
    merged,   \* the last call of merge: operands and result
    conv      \* the last call of try_from: operand and result

vars == <<source, pending, out, pc, srcs, parts, merged, conv>>

(***************************************************************************)
(* Bounds of the model.                                                    *)
(***************************************************************************)
MaxFields == 2     \* fields of a struct
MaxNameLen == 2    \* characters of a field name
MaxParts == 3      \* *Partial instances a program merges
MaxAttrs == 1      \* attributes written on the item beside the derive
MaxDerives == 2    \* trait paths inside one partial_derive(...)
MaxGenerics == 1   \* generic parameters of the struct

(***************************************************************************)
(* Identifiers as character sequences.                                     *)
(***************************************************************************)
LowerChars == {"a", "b"}
UpperChars == {"A", "B"}

IsLower(c) == c \in LowerChars
IsUpper(c) == c \in UpperChars

ToUpper(c) == CASE c = "a" -> "A" [] c = "b" -> "B" [] OTHER -> c
ToLower(c) == CASE c = "A" -> "a" [] c = "B" -> "b" [] OTHER -> c

S_Foo == <<"F", "o", "o">>
S_Partial == <<"P", "a", "r", "t", "i", "a", "l">>
S_Error == <<"E", "r", "r", "o", "r">>
S_Missing == <<"M", "i", "s", "s", "i", "n", "g">>

\* Sequences over S of length lo..hi.
SeqsOf(S, lo, hi) == UNION {[1..n -> S] : n \in lo..hi}

RECURSIVE Flatten(_)
Flatten(ss) == IF ss = <<>> THEN <<>> ELSE Head(ss) \o Flatten(Tail(ss))

\* convert_case: a word boundary lies between prev and c (lower|Upper, or the
\* last capital of an acronym followed by a lower-case letter).
WordBoundary(prev, c, rest) ==
    \/ IsLower(prev) /\ IsUpper(c)
    \/ IsUpper(prev) /\ IsUpper(c) /\ rest # <<>> /\ IsLower(Head(rest))

\* convert_case: split an identifier into words; '_' is a delimiter and is
\* dropped, empty words are dropped.
RECURSIVE Words(_, _, _)
Words(s, cur, acc) ==
    IF s = <<>>
    THEN IF cur = <<>> THEN acc ELSE Append(acc, cur)
    ELSE LET c == Head(s)
             t == Tail(s)
         IN  IF c = "_"
             THEN Words(t, <<>>, IF cur = <<>> THEN acc ELSE Append(acc, cur))
             ELSE IF cur # <<>> /\ WordBoundary(cur[Len(cur)], c, t)
                  THEN Words(t, <<c>>, Append(acc, cur))
                  ELSE Words(t, Append(cur, c), acc)

Capitalize(w) == [i \in 1..Len(w) |-> IF i = 1 THEN ToUpper(w[i]) ELSE ToLower(w[i])]

\* name.to_case(Case::Pascal)
PascalCase(name) ==
    LET ws == Words(name, <<>>, <<>>)
    IN  Flatten([i \in 1..Len(ws) |-> Capitalize(ws[i])])

\* format!("{}Missing", pascal) as an identifier
VariantIdent(f_ident) == PascalCase(f_ident) \o S_Missing

(***************************************************************************)
(* syn::Type, structurally.                                                *)
(***************************************************************************)
NoArgs == [kind |-> "None", args |-> <<>>]
Angle(as) == [kind |-> "AngleBracketed", args |-> as]
Parens(as) == [kind |-> "Parenthesized", args |-> as]
Seg(id, arguments) == [ident |-> id, arguments |-> arguments]

TyPath(colon, qself, segs) ==
    [kind |-> "Path", leading_colon |-> colon, qself |-> qself,
     segments |-> segs, elems |-> <<>>]
\* a non-path type (reference, parenthesised, tuple, array) over element types
TyOther(kind, elems) ==
    [kind |-> kind, leading_colon |-> FALSE, qself |-> FALSE,
     segments |-> <<>>, elems |-> elems]

ArgType(t) == [kind |-> "Type", ty |-> <<t>>]
ArgLifetime == [kind |-> "Lifetime", ty |-> <<>>]
ArgConst == [kind |-> "Const", ty |-> <<>>]

Simple(id) == TyPath(FALSE, FALSE, <<Seg(id, NoArgs)>>)
Generic1(id, t) == TyPath(FALSE, FALSE, <<Seg(id, Angle(<<ArgType(t)>>))>>)

T_i32 == Simple("i32")
T_String == Simple("String")
T_OptString == Generic1("Option", T_String)
T_OptI32 == Generic1("Option", T_i32)

\* The type expressions a field is declared with.
Types ==
    { T_i32, T_String, T_OptString, T_OptI32,
      Generic1("Vec", Simple("u8")),
      Generic1("Vec", T_OptI32),
      Generic1("Option", T_OptI32),
      Generic1("option", T_i32),
      Generic1("OPTION", T_i32),
      Generic1("Optional", T_i32),
      Simple("MaybeStr"),                      \* type MaybeStr = Option<String>;
      Simple("Option"),
      TyPath(FALSE, FALSE, <<Seg("Option", Parens(<<ArgType(T_i32)>>))>>),
      TyPath(FALSE, FALSE, <<Seg("Option", Angle(<<>>))>>),
      TyPath(FALSE, FALSE, <<Seg("Option", Angle(<<ArgLifetime>>))>>),
      TyPath(FALSE, FALSE, <<Seg("Option", Angle(<<ArgConst>>))>>),
      TyPath(FALSE, FALSE, <<Seg("Option", Angle(<<ArgLifetime, ArgType(T_i32)>>))>>),
      TyPath(FALSE, FALSE,
             <<Seg("std", NoArgs), Seg("option", NoArgs),
               Seg("Option", Angle(<<ArgType(T_i32)>>))>>),
      TyPath(TRUE, FALSE,
             <<Seg("std", NoArgs), Seg("option", NoArgs),
               Seg("Option", Angle(<<ArgType(T_String)>>))>>),
      TyPath(FALSE, FALSE,
             <<Seg("Option", Angle(<<ArgType(T_i32)>>)), Seg("Item", NoArgs)>>),
      TyPath(FALSE, TRUE,
             <<Seg("Tr", NoArgs), Seg("Option", Angle(<<ArgType(T_i32)>>))>>),
      TyOther("Reference", <<T_OptI32>>),
      TyOther("Paren", <<T_OptI32>>),
      TyOther("Tuple", <<T_i32, T_OptI32>>),
      TyOther("Array", <<T_OptI32>>) }

\* the last segment is named Option, whatever its arguments
is_path_option_by_name(path) ==
    IF Len(path.segments) > 0
    THEN path.segments[Len(path.segments)].ident = "Option"
    ELSE FALSE

\* path.segments.last() is Option<...>
is_path_option(path) ==
    IF Len(path.segments) > 0
    THEN LET last == path.segments[Len(path.segments)]
         IN  last.ident = "Option" /\ last.arguments.kind = "AngleBracketed"
    ELSE FALSE

is_option_type(ty) ==
    IF ty.kind = "Path" THEN is_path_option(ty) ELSE FALSE

\* ::std::option::Option<#f_ty>
WrapInOption(f_ty) ==
    TyPath(TRUE, FALSE,
           <<Seg("std", NoArgs), Seg("option", NoArgs),
             Seg("Option", Angle(<<ArgType(f_ty)>>))>>)

(***************************************************************************)
(* The item the macros see: syn::DeriveInput.                              *)
(***************************************************************************)
Field(vis, ident, ty) == [vis |-> vis, ident |-> ident, ty |-> ty]

A_Derive == [path |-> <<"derive">>, args |-> <<"Partial">>]
Attr(path, args) == [path |-> path, args |-> args]

P_Bare == <<"partial_derive">>
P_Qualified == <<"optifier", "partial_derive">>
P_Allow == <<"allow">>

\* The attribute names a macro: the compiler expands it (the others are inert).
IsDeriveAttr(a) == a.path = <<"derive">>
IsPartialDeriveAttr(a) == a.path \in {P_Bare, P_Qualified}
IsActive(a) == IsDeriveAttr(a) \/ IsPartialDeriveAttr(a)

ActiveIdx(attrs) == {i \in 1..Len(attrs) : IsActive(attrs[i])}
FirstActive(attrs) == CHOOSE i \in ActiveIdx(attrs) : \A j \in ActiveIdx(attrs) : i <= j

RemoveAt(s, i) == [j \in 1..(Len(s) - 1) |-> IF j < i THEN s[j] ELSE s[j + 1]]

\* syn::Path::is_ident: a single segment, no leading colon, equal to the name.
is_ident(path, name) == Len(path) = 1 /\ path[1] = name

\* Generics::split_for_impl: the type generics are the parameters' names.
ty_generics_of(generics) ==
    [i \in 1..Len(generics) |-> [kind |-> generics[i].kind, name |-> generics[i].name]]
impl_generics_of(generics) == generics

(***************************************************************************)
(* collect_partial_derives                                                 *)
(***************************************************************************)
RECURSIVE CollectDerives(_)
CollectDerives(attrs) ==
    IF attrs = <<>> THEN <<>>
    ELSE LET attr == Head(attrs)
         IN  IF ~is_ident(attr.path, "partial_derive")
             THEN CollectDerives(Tail(attrs))
             ELSE attr.args \o CollectDerives(Tail(attrs))

collect_partial_derives(input) ==
    LET derives == CollectDerives(input.attrs)
    IN  IF derives = <<>>
        THEN [present |-> FALSE, paths |-> <<>>]
        ELSE [present |-> TRUE, paths |-> derives]

(***************************************************************************)
(* construct_partial_struct                                                *)
(***************************************************************************)
PartialFieldAlwaysWrapped(f) ==
    [vis |-> f.vis, ident |-> f.ident, ty |-> WrapInOption(f.ty)]

PartialField(f) ==
    IF is_option_type(f.ty)
    THEN [vis |-> f.vis, ident |-> f.ident, ty |-> f.ty]
    ELSE [vis |-> f.vis, ident |-> f.ident, ty |-> WrapInOption(f.ty)]

construct_partial_struct(type_ident, type_vis, fields_named, generics, where_clause, derive_attrs) ==
    [derive_attrs |-> derive_attrs,
     vis |-> type_vis,
     ident |-> type_ident,
     generics |-> generics,
     where_clause |-> where_clause,
     fields |-> [i \in 1..Len(fields_named) |-> PartialField(fields_named[i])]]

(***************************************************************************)
(* construct_merge_impl_block                                              *)
(***************************************************************************)
\* #f_ident: other.#f_ident.or(self.#f_ident)
MergedFieldRightBiased(f) == [ident |-> f.ident, first |-> "other", second |-> "self"]

\* #f_ident: self.#f_ident.or(other.#f_ident)
MergedField(f) == [ident |-> f.ident, first |-> "self", second |-> "other"]

construct_merge_impl_block(type_ident, fields_named, impl_generics, ty_generics, where_clause) ==
    [impl_generics |-> impl_generics,
     self_ty |-> [ident |-> type_ident, generics |-> ty_generics],
     where_clause |-> where_clause,
     other_ty |-> [ident |-> type_ident, generics |-> <<>>],
     fields_merged |-> [i \in 1..Len(fields_named) |-> MergedField(fields_named[i])]]

(***************************************************************************)
(* construct_tryfrom_impl_block                                            *)
(***************************************************************************)
RECURSIVE ErrorVariants(_)
ErrorVariants(fields_named) ==
    IF fields_named = <<>> THEN <<>>
    ELSE LET f == Head(fields_named)
         IN  IF is_option_type(f.ty)
             THEN ErrorVariants(Tail(fields_named))
             ELSE <<[message_field |-> f.ident, ident |-> VariantIdent(f.ident)]>>
                  \o ErrorVariants(Tail(fields_named))

\* every field is required: partial.#f_ident.ok_or(..)?
ConstructFieldAlwaysRequired(f) ==
    [ident |-> f.ident, ok_or |-> TRUE, variant |-> VariantIdent(f.ident)]

ConstructField(f) ==
    IF is_option_type(f.ty)
    THEN [ident |-> f.ident, ok_or |-> FALSE, variant |-> <<>>]
    ELSE [ident |-> f.ident, ok_or |-> TRUE, variant |-> VariantIdent(f.ident)]

construct_tryfrom_impl_block(orig_ident, partial_ident, fields_named, impl_generics, ty_generics, where_clause) ==
    LET error_ident == partial_ident \o S_Error
    IN  [error_def |-> [ident |-> error_ident,
                        variants |-> ErrorVariants(fields_named)],
         impl_generics |-> impl_generics,
         from_ty |-> [ident |-> partial_ident, generics |-> ty_generics],
         for_ty |-> [ident |-> orig_ident, generics |-> ty_generics],
         where_clause |-> where_clause,
         error_ty |-> error_ident,
         construct_fields |->
             [i \in 1..Len(fields_named) |-> ConstructField(fields_named[i])]]

(***************************************************************************)
(* derive_partial                                                          *)
(***************************************************************************)
NoOutput == [kind |-> "None"]
Panic(msg) == [kind |-> "Panic", msg |-> msg]

Generate(input) ==
    LET partial_ident == input.ident \o S_Partial
        maybe_derive_attr == collect_partial_derives(input)
        fields == input.data.fields.named
        generics == input.generics
    IN  [kind |-> "Tokens",
         partial_struct_def |->
             construct_partial_struct(partial_ident, input.vis, fields, generics,
                                      input.where_clause, maybe_derive_attr),
         merge_function_impl_block |->
             construct_merge_impl_block(partial_ident, fields,
                                        impl_generics_of(generics),
                                        ty_generics_of(generics),
                                        input.where_clause),
         tryfrom_impl_block |->
             construct_tryfrom_impl_block(input.ident, partial_ident, fields,
                                          impl_generics_of(generics),
                                          ty_generics_of(generics),
                                          input.where_clause)]

\* a derive_partial that forgets the check of the fields' shape
derive_partial_unchecked(input) ==
    IF input.data.kind # "Struct"
    THEN Panic("Optifier supports only struct types")
    ELSE Generate(input)

derive_partial(input) ==
    IF input.data.kind # "Struct"
    THEN Panic("Optifier supports only struct types")
    ELSE IF input.data.fields.kind # "Named"
         THEN Panic("Optifier supports only named fields")
         ELSE Generate(input)

(***************************************************************************)
(* partial_derive: the attribute macro returns the item and drops its own  *)
(* arguments.                                                              *)
(***************************************************************************)
partial_derive(attr, item) == item

(***************************************************************************)
(* The emitted code at run time.  An Option value is a record; an instance *)
(* of a struct is a function from its fields' identifiers to values.       *)
(***************************************************************************)
OptNone == [some |-> FALSE, val |-> 0]
Some(v) == [some |-> TRUE, val |-> v]

\* Option::or
Or(a, b) == IF a.some THEN a ELSE b

Operand(name, self, other) == IF name = "self" THEN self ELSE other

\* a merge that keeps self and ignores other
merge_self_only(code, self, other) == self

\* Self { #(#fields_merged),* }
merge(code, self, other) ==
    LET fm == code.fields_merged
        idents == {fm[i].ident : i \in DOMAIN fm}
    IN  [n \in idents |->
            LET e == fm[CHOOSE i \in DOMAIN fm : fm[i].ident = n]
            IN  Or(Operand(e.first, self, other)[n],
                   Operand(e.second, self, other)[n])]

\* Ok(#orig_ident { #(#construct_fields),* }): the field expressions are
\* evaluated in the order written and `?` returns at the first None.
RECURSIVE ConstructFrom(_, _, _)
ConstructFrom(cfs, partial, acc) ==
    IF cfs = <<>>
    THEN [kind |-> "Ok", value |-> acc]
    ELSE LET cf == Head(cfs)
             v == partial[cf.ident]
         IN  IF cf.ok_or
             THEN IF v.some
                  THEN ConstructFrom(Tail(cfs), partial, acc @@ (cf.ident :> v.val))
                  ELSE [kind |-> "Err", error |-> cf.variant]
             ELSE ConstructFrom(Tail(cfs), partial, acc @@ (cf.ident :> v))

Reverse(s) == [i \in 1..Len(s) |-> s[Len(s) + 1 - i]]

\* a try_from that evaluates the field expressions last to first
try_from_reversed(code, partial) ==
    ConstructFrom(Reverse(code.construct_fields), partial, <<>>)

try_from(code, partial) == ConstructFrom(code.construct_fields, partial, <<>>)

\* What the compiler needs of the emitted items before anything runs: the
\* type of merge's `other` names the struct with its generic arguments, and
\* the enum's variants are distinct.
Compiles(tokens) ==
    /\ tokens.merge_function_impl_block.other_ty
           = tokens.merge_function_impl_block.self_ty
    /\ LET vs == tokens.tryfrom_impl_block.error_def.variants
       IN  \A i, j \in DOMAIN vs : vs[i].ident = vs[j].ident => i = j

NoCall == [kind |-> "None"]

(***************************************************************************)
(* Inputs.                                                                 *)
(***************************************************************************)
NameChars == {"a", "A", "_"}

\* Rust identifiers over NameChars ("_" alone is not one).
Names == SeqsOf(NameChars, 1, MaxNameLen) \ {<<"_">>}

\* the names a, b, aa, bb, ... for the fields of the inputs that do not vary
\* the names
DefaultName(i) ==
    IF i % 2 = 1
    THEN [k \in 1..((i + 1) \div 2) |-> "a"]
    ELSE [k \in 1..(i \div 2) |-> "b"]
DefaultVis(i) == IF i % 2 = 1 THEN "" ELSE "pub"

TwoTypes == {T_i32, T_OptString}

Params ==
    { [kind |-> "lifetime", name |-> "'a", bound |-> ""],
      [kind |-> "type", name |-> "T", bound |-> "Clone"],
      [kind |-> "type", name |-> "U", bound |-> ""] }

GenericsSet ==
    {g \in SeqsOf(Params, 0, MaxGenerics) :
        \A i, j \in DOMAIN g : g[i].name = g[j].name => i = j}

Traits == {"Debug", "Clone"}

WrittenAttrs ==
    {Attr(P_Allow, <<>>)}
        \cup {Attr(p, a) : p \in {P_Bare, P_Qualified},
                           a \in SeqsOf(Traits, 0, MaxDerives)}

InsertAt(s, k, e) ==
    [j \in 1..(Len(s) + 1) |-> IF j < k THEN s[j] ELSE IF j = k THEN e ELSE s[j - 1]]

Item(attrs, vis, generics, where_clause, data) ==
    [attrs |-> attrs, vis |-> vis, ident |-> S_Foo, generics |-> generics,
     where_clause |-> where_clause, data |-> data]

StructData(kind, fields) == [kind |-> "Struct", fields |-> [kind |-> kind, named |-> fields]]

NamedStruct(attrs, fields) == Item(attrs, "pub", <<>>, <<>>, StructData("Named", fields))

DefaultFields(tys) ==
    [i \in 1..Len(tys) |-> Field(DefaultVis(i), DefaultName(i), tys[i])]

\* #[derive(Partial, Debug)] #[partial_derive(Debug)] of examples/playground.rs
PlaygroundAttrs == <<A_Derive, Attr(P_Bare, <<"Debug">>)>>

InitWith(item, instances) ==
    /\ source = item
    /\ pending = item.attrs
    /\ out = NoOutput
    /\ pc = "expanding"
    /\ srcs = instances
    /\ parts = instances
    /\ merged = NoCall
    /\ conv = NoCall

\* structs whose fields range over the type expressions
InitTypes ==
    \E n \in 1..MaxFields : \E tys \in [1..n -> Types] :
        InitWith(NamedStruct(<<A_Derive>>, DefaultFields(tys)), <<>>)

\* structs of one field and of two fields (two names are what it takes for
\* their variants to meet) whose names range over the identifiers
InitNames ==
    \E n \in 1..2 : \E names \in [1..n -> Names], tys \in [1..n -> TwoTypes] :
        /\ \A i, j \in 1..n : names[i] = names[j] => i = j
        /\ InitWith(NamedStruct(<<A_Derive>>,
                        [i \in 1..n |-> Field(DefaultVis(i), names[i], tys[i])]),
                    <<>>)

\* items of every shape: enums, unions, tuple, unit and braced structs, with
\* and without generic parameters
InitShapes ==
    \E vis \in {"", "pub"}, g \in GenericsSet :
    \E w \in {<<>>} \cup {<<"T: Default">> : i \in {j \in DOMAIN g : g[j].name = "T"}} :
    \E n \in 0..MaxFields : \E tys \in [1..n -> TwoTypes] :
    \E data \in
        { [kind |-> "Enum"],
          [kind |-> "Union", fields |-> [kind |-> "Named", named |-> DefaultFields(tys)]],
          StructData("Unit", <<>>),
          StructData("Unnamed", [i \in 1..n |-> Field(DefaultVis(i), <<>>, tys[i])]),
          StructData("Named", DefaultFields(tys)) } :
        InitWith(Item(<<A_Derive>>, vis, g, w, data), <<>>)

\* a struct under every list of attributes, the derive at every place in it
InitAttrs ==
    \E as \in SeqsOf(WrittenAttrs, 0, MaxAttrs) : \E k \in 1..(Len(as) + 1) :
        InitWith(NamedStruct(InsertAt(as, k, A_Derive), DefaultFields(<<T_i32>>)), <<>>)

\* The field types of the structs the programs use: TestType of
\* examples/playground.rs, and structs with no required field, with an
\* optional field before a required one, with a single field.
ProgramStructs ==
    { <<T_i32, T_String, T_OptString>>,
      <<T_OptString, T_OptI32>>,
      <<T_OptString, T_i32>>,
      <<T_i32>> }

\* a program like examples/playground.rs: a struct and the instances of its
\* *Partial it builds; instance i holds the value i in the fields it sets
InitProgram ==
    \E tys \in ProgramStructs :
    \E n \in {Len(tys)} :
    \E k \in 1..MaxParts :
    \E present \in [1..k -> [{DefaultName(i) : i \in 1..n} -> BOOLEAN]] :
        InitWith(NamedStruct(PlaygroundAttrs, DefaultFields(tys)),
                 [p \in 1..k |->
                     [f \in {DefaultName(i) : i \in 1..n} |->
                         IF present[p][f] THEN Some(p) ELSE OptNone]])

Init == InitTypes \/ InitNames \/ InitShapes \/ InitAttrs \/ InitProgram

(***************************************************************************)
(* Expansion: the compiler expands the first active attribute of the item. *)
(***************************************************************************)
AfterExpansion(attrs, o) ==
    IF o.kind = "Panic" THEN "panicked"
    ELSE IF ActiveIdx(attrs) = {} THEN "expanded" ELSE "expanding"

\* #[partial_derive(..)] is expanded: the attribute is gone, the item stays.
PartialDeriveAttr ==
    /\ pc = "expanding"
    /\ ActiveIdx(pending) # {}
    /\ LET i == FirstActive(pending)
       IN  /\ IsPartialDeriveAttr(pending[i])
           /\ pending' = partial_derive(pending[i], RemoveAt(pending, i))
    /\ pc' = AfterExpansion(pending', out)
    /\ UNCHANGED <<source, out, srcs, parts, merged, conv>>

\* #[derive(Partial)] is expanded: derive_partial sees the item with the
\* attributes still attached to it.
DerivePartial ==
    /\ pc = "expanding"
    /\ ActiveIdx(pending) # {}
    /\ LET i == FirstActive(pending)
       IN  /\ IsDeriveAttr(pending[i])
           /\ pending' = RemoveAt(pending, i)
           /\ out' = derive_partial([source EXCEPT !.attrs = RemoveAt(pending, i)])
    /\ pc' = AfterExpansion(pending', out')
    /\ UNCHANGED <<source, srcs, parts, merged, conv>>

(***************************************************************************)
(* Run time.                                                               *)
(***************************************************************************)
\* TestTypePartial::merge(a, b) on two adjacent live instances
Merge ==
    /\ pc = "expanded"
    /\ Compiles(out)
    /\ \E i \in 1..(Len(parts) - 1) :
        LET r == merge(out.merge_function_impl_block, parts[i], parts[i + 1])
        IN  /\ merged' = [kind |-> "Call", self |-> parts[i],
                          other |-> parts[i + 1], ret |-> r]
            /\ parts' = [j \in 1..(Len(parts) - 1) |->
                            IF j < i THEN parts[j]
                            ELSE IF j = i THEN r ELSE parts[j + 1]]
    /\ UNCHANGED <<source, pending, out, pc, srcs, conv>>

\* partial.try_into() on a live instance; the program ends with the result
TryFrom ==
    /\ pc = "expanded"
    /\ Compiles(out)
    /\ \E i \in 1..Len(parts) :
        /\ conv' = [kind |-> "Call", partial |-> parts[i],
                    ret |-> try_from(out.tryfrom_impl_block, parts[i])]
        /\ parts' = RemoveAt(parts, i)
    /\ pc' = "done"
    /\ UNCHANGED <<source, pending, out, srcs, merged>>

Next == PartialDeriveAttr \/ DerivePartial \/ Merge \/ TryFrom

Spec == Init /\ [][Next]_vars

(***************************************************************************)
(* Properties.                                                             *)
(***************************************************************************)
SrcFields == source.data.fields.named
FieldIdx == DOMAIN SrcFields
FieldIdents == {SrcFields[i].ident : i \in FieldIdx}
Required(i) == ~is_option_type(SrcFields[i].ty)
RequiredFields == SelectSeq(SrcFields, LAMBDA f : ~is_option_type(f.ty))

Min(S) == CHOOSE x \in S : \A y \in S : x <= y

\* the value of field n in the first instance of ps that holds one
FirstPresent(ps, n) ==
    LET holders == {i \in DOMAIN ps : ps[i][n].some}
    IN  IF holders = {} THEN OptNone ELSE ps[Min(holders)][n]

\* C1: merge(A, B) has every field of the struct, and each field of the
\* result is A's field if A's field is Some, otherwise B's field, whether the
\* original field was required or already an Option.
C1_MergeLeftBiased ==
    merged.kind = "Call" =>
        /\ DOMAIN merged.ret = FieldIdents
        /\ \A n \in FieldIdents :
              merged.ret[n] = IF merged.self[n].some
                              THEN merged.self[n] ELSE merged.other[n]

C1_Witness ==
    /\ merged.kind = "Call"
    /\ \E i, j \in FieldIdx :
        /\ Required(i) /\ ~Required(j)
        /\ ~merged.self[SrcFields[i].ident].some
        /\ merged.other[SrcFields[i].ident].some
        /\ merged.self[SrcFields[j].ident].some
        /\ merged.other[SrcFields[j].ident].some
        /\ merged.self[SrcFields[j].ident] # merged.other[SrcFields[j].ident]

\* C2: try_from(P) is Ok iff every field whose original type is not an
\* Option is Some in P; on Ok a required field holds the unwrapped value and
\* an optional field holds P's field unchanged.
C2_TryFromOkIffRequiredPresent ==
    conv.kind = "Call" =>
        /\ conv.ret.kind = "Ok"
              <=> \A i \in FieldIdx : Required(i) => conv.partial[SrcFields[i].ident].some
        /\ conv.ret.kind = "Ok" =>
              /\ DOMAIN conv.ret.value = FieldIdents
              /\ \A i \in FieldIdx :
                    LET n == SrcFields[i].ident
                    IN  IF Required(i)
                        THEN conv.ret.value[n] = conv.partial[n].val
                        ELSE conv.ret.value[n] = conv.partial[n]

C2_Witness ==
    /\ conv.kind = "Call"
    /\ conv.ret.kind = "Ok"
    /\ \E i, j \in FieldIdx :
        /\ Required(i)
        /\ ~Required(j) /\ ~conv.partial[SrcFields[j].ident].some

MissingRequired(p) == {i \in FieldIdx : Required(i) /\ ~p[SrcFields[i].ident].some}

\* C3: when required fields are absent, try_from returns the error case of
\* the first absent required field in declaration order.
C3_FirstMissingWins ==
    (conv.kind = "Call" /\ MissingRequired(conv.partial) # {}) =>
        /\ conv.ret.kind = "Err"
        /\ conv.ret.error
              = VariantIdent(SrcFields[Min(MissingRequired(conv.partial))].ident)

C3_Witness ==
    /\ conv.kind = "Call"
    /\ Cardinality(MissingRequired(conv.partial)) >= 2
    /\ conv.ret.kind = "Err"

\* C4: a field of the *Partial struct has the original type when the
\* original is classified as Option, and otherwise the original type wrapped
\* in exactly one ::std::option::Option<..>.
C4_ShadowFieldTypes ==
    out.kind = "Tokens" =>
        LET pf == out.partial_struct_def.fields
        IN  /\ Len(pf) = Len(SrcFields)
            /\ \A i \in FieldIdx :
                  LET o == SrcFields[i].ty
                      t == pf[i].ty
                  IN  IF is_option_type(o)
                      THEN t = o
                      ELSE /\ t.kind = "Path"
                           /\ Len(t.segments) = 3
                           /\ t.segments[3].ident = "Option"
                           /\ t.segments[3].arguments
                                 = [kind |-> "AngleBracketed",
                                    args |-> <<[kind |-> "Type", ty |-> <<o>>]>>]

C4_Witness ==
    /\ out.kind = "Tokens"
    /\ \E i, j \in FieldIdx :
        /\ SrcFields[i].ty = Generic1("Option", T_OptI32)
        /\ out.partial_struct_def.fields[i].ty = SrcFields[i].ty
        /\ SrcFields[j].ty = Simple("MaybeStr")
        /\ out.partial_struct_def.fields[j].ty # SrcFields[j].ty

\* C5: the error enum's cases correspond 1:1 to the required fields:
\* one case PascalCase(name) + Missing per required field, in the fields'
\* order, none for an optional field, and distinct fields give distinct cases.
C5_VariantsOneToOne ==
    out.kind = "Tokens" =>
        LET vs == out.tryfrom_impl_block.error_def.variants
        IN  /\ Len(vs) = Len(RequiredFields)
            /\ \A k \in DOMAIN vs :
                  vs[k].ident = PascalCase(RequiredFields[k].ident) \o S_Missing
            /\ \A i, j \in DOMAIN vs : i # j => vs[i].ident # vs[j].ident

\* the documented use: #[optifier::partial_derive(T1, .., Tn)] right above
\* #[derive(optifier::Partial)]
DocumentedUse ==
    /\ Len(source.attrs) = 2
    /\ source.attrs[1].path = P_Qualified
    /\ source.attrs[1].args # <<>>
    /\ IsDeriveAttr(source.attrs[2])

NoAnnotation == \A i \in DOMAIN source.attrs : ~IsPartialDeriveAttr(source.attrs[i])

\* C6: with the documented annotation above the derive the *Partial struct
\* carries #[derive(T1, .., Tn)], the paths in the order written; with no
\* partial_derive annotation it carries no derive attribute.
C6_DerivesCarried ==
    out.kind = "Tokens" =>
        /\ DocumentedUse =>
              out.partial_struct_def.derive_attrs
                  = [present |-> TRUE, paths |-> source.attrs[1].args]
        /\ NoAnnotation => ~out.partial_struct_def.derive_attrs.present

IsNamedStruct ==
    IF source.data.kind = "Struct" THEN source.data.fields.kind = "Named" ELSE FALSE

\* C7 as claimed: derive_partial generates only for a struct with a non-empty
\* list of named fields and rejects every other input.
C7_RejectsAllButNonEmptyRecords ==
    /\ out.kind = "Tokens" => (IsNamedStruct /\ Len(SrcFields) > 0)
    /\ out.kind = "Panic" => ~IsNamedStruct

\* C7 (amended): derive_partial generates only for a struct with braced,
\* named fields (the list may be empty) and panics on every other input
\* (enum, union, tuple struct, unit struct); it emits the struct, the merge
\* impl and the TryFrom impl together or nothing, and nothing runs after a
\* panic.
C7_RejectsAllButNamedStructs ==
    /\ out.kind = "Tokens" =>
          /\ IsNamedStruct
          /\ DOMAIN out = {"kind", "partial_struct_def",
                           "merge_function_impl_block", "tryfrom_impl_block"}
    /\ out.kind = "Panic" => (~IsNamedStruct /\ pc = "panicked")
    /\ ~IsNamedStruct => (out.kind # "Tokens" /\ pc \in {"expanding", "panicked"})
    /\ pc \in {"expanded", "done"} => out.kind = "Tokens"

C7_Witness ==
    /\ out.kind = "Tokens"
    /\ IsNamedStruct
    /\ SrcFields = <<>>

LastSegment(ty) == ty.segments[Len(ty.segments)]

\* a path whose final segment is Option<..> in angle-bracket syntax
OptionInAngles(ty) ==
    IF ty.kind = "Path"
    THEN /\ LastSegment(ty).ident = "Option"
         /\ LastSegment(ty).arguments.kind = "AngleBracketed"
    ELSE FALSE

HasTypeArgument(ty) ==
    \E k \in DOMAIN LastSegment(ty).arguments.args :
        LastSegment(ty).arguments.args[k].kind = "Type"

\* C8 as claimed: is_option_type is true iff the type is a path whose final
\* segment is Option applied to at least one type argument in angle brackets.
C8_TrueIffOptionOfSomeType ==
    out.kind = "Tokens" =>
        \A i \in FieldIdx :
            is_option_type(SrcFields[i].ty)
                <=> (OptionInAngles(SrcFields[i].ty) /\ HasTypeArgument(SrcFields[i].ty))

\* C8 (amended): is_option_type is true iff the type is a path whose final
\* segment is named exactly Option and has angle-bracket arguments, whatever
\* they are (the list may be empty or hold no type); it is false for
\* non-path types, for Option without arguments or with parenthesised
\* arguments, and for an alias of an Option.  The generated try_from passes
\* exactly these fields through.
C8_TrueIffOptionInAngles ==
    out.kind = "Tokens" =>
        \A i \in FieldIdx :
            /\ is_option_type(SrcFields[i].ty) <=> OptionInAngles(SrcFields[i].ty)
            /\ out.tryfrom_impl_block.construct_fields[i].ok_or
                  <=> ~OptionInAngles(SrcFields[i].ty)

C8_Witness ==
    /\ out.kind = "Tokens"
    /\ \E i, j \in FieldIdx :
        /\ is_option_type(SrcFields[i].ty)
        /\ ~HasTypeArgument(SrcFields[i].ty)
        /\ SrcFields[j].ty = Simple("Option")
        /\ ~is_option_type(SrcFields[j].ty)

\* C9: the `other` parameter of merge has the type of self: the *Partial
\* struct applied to the generic arguments copied from the source type, the
\* same the impl block and the TryFrom impl use.
C9_OtherHasTypeOfSelf ==
    out.kind = "Tokens" =>
        LET m == out.merge_function_impl_block
        IN  /\ m.self_ty = [ident |-> source.ident \o S_Partial,
                            generics |-> ty_generics_of(source.generics)]
            /\ out.tryfrom_impl_block.from_ty = m.self_ty
            /\ m.other_ty = m.self_ty

\* C10: merging P1..Pn in any grouping that keeps their order gives, in each
\* field, the value of the first Pi that holds one (None if none does); so
\* try_from of the merge of all of them is Ok iff every required field is
\* held by at least one Pi.
C10_MergeFirstPresentWins ==
    /\ (pc = "expanded" /\ conv.kind = "None") =>
          \A n \in FieldIdents : FirstPresent(parts, n) = FirstPresent(srcs, n)
    /\ (conv.kind = "Call" /\ parts = <<>>) =>
          /\ \A n \in FieldIdents : conv.partial[n] = FirstPresent(srcs, n)
          /\ conv.ret.kind = "Ok"
                <=> \A i \in FieldIdx :
                        Required(i) => \E p \in DOMAIN srcs : srcs[p][SrcFields[i].ident].some

C10_Witness ==
    /\ conv.kind = "Call"
    /\ parts = <<>>
    /\ Len(srcs) = 3
    /\ conv.ret.kind = "Ok"
    /\ \E i, j \in FieldIdx :
        /\ Required(i) /\ Required(j)
        /\ ~srcs[1][SrcFields[i].ident].some
        /\ ~srcs[2][SrcFields[i].ident].some
        /\ srcs[2][SrcFields[j].ident].some
        /\ srcs[3][SrcFields[j].ident].some
        /\ ~srcs[1][SrcFields[j].ident].some

====
